---- MODULE Spec2Model ----
(***************************************************************************)
(* A model of the college/student GraphQL resolvers of                     *)
(* fastapi-graphql-basics: the two tables of api/models.py, the Query and  *)
(* Mutation resolvers of api/schema.py, and the older copy of the          *)
(* resolvers in schema.py.                                                 *)
(***************************************************************************)
EXTENDS Integers, Sequences, FiniteSets, TLC

\* Rows ever inserted into the two tables together (caps the id counters).
MaxRows == 3

\* Resolver calls in flight at once, each with its own session.
MaxProcs == 2

\* NULL / None in an integer column.  Primary keys are assigned from 1 up,
\* so 0 is no row's id.
None == 0

CollegeNames == {"Stanford", "MIT"}
Locations == {"California", "Massachusetts"}
StudentNames == {"Alice", "Jorge"}
Ages == {21, 23}
\* The ids a caller passes: every id that can be assigned.  Ids not assigned
\* yet and ids of deleted rows are the absent ones.
IdInputs == 1..MaxRows
Procs == 1..MaxProcs

VARIABLES
    colleges,        \* table colleges: set of [id, name, location]
    students,        \* table students: set of [id, name, age, college_id]
    collegeSeq,      \* the next primary key of colleges
    studentSeq,      \* the next primary key of students
    everCollegeIds,  \* history: every id a College row has ever had
    called,          \* the resolver that finished last
    result,          \* what it returned or raised
    session,         \* its session, as it left it
    pc,              \* per call in flight: where its resolver stands
    local,           \* per call in flight: the resolver's local variables
    fkEnforced       \* whether the store checks students.college_id on insert

vars == <<colleges, students, collegeSeq, studentSeq, everCollegeIds, called, result, session,
          pc, local, fkEnforced>>

inflight == <<pc, local>>

----
\* The values a resolver hands back.

View(v) == [kind |-> "view", view |-> v]

List(items) == [kind |-> "list", items |-> items]

Bool(b) == [kind |-> "bool", flag |-> b]

Raise(error, message) == [kind |-> "error", error |-> error, message |-> message]

NoResult == [kind |-> "none"]

CollegeTypeFields == {"id", "name", "location"}

StudentTypeFields == {"id", "name", "age", "college_id"}

\* A strawberry type is a dataclass whose fields have no defaults: the
\* constructor takes every field as a keyword and raises TypeError if one is
\* missing.
CollegeType(kw) ==
    IF DOMAIN kw = CollegeTypeFields
    THEN View([type |-> "CollegeType"] @@ kw)
    ELSE Raise("TypeError", "missing required argument")

StudentType(kw) ==
    IF DOMAIN kw = StudentTypeFields
    THEN View([type |-> "StudentType"] @@ kw)
    ELSE Raise("TypeError", "missing required argument")

\* The ORM class College called as a constructor: a model instance.
College(kw) == View([type |-> "College"] @@ kw)

----
\* The session and the store.

\* One session-scoped unit of work per call, handed over open.
get_db == [state |-> "open"]

\* The store assigns the next value of the table's key sequence.
assign_id(seq) == seq

RECURSIVE OrderById(_)
OrderById(rows) ==
    IF rows = {} THEN <<>>
    ELSE LET r == CHOOSE x \in rows : \A y \in rows : x.id <= y.id
         IN <<r>> \o OrderById(rows \ {r})

\* db.query(T).all()
query_all(table) == OrderById(table)

\* db.query(T).filter(T.id == id).first(): the rows found, none or one.
query_first(table, id) == {r \in table : r.id = id}

\* Mutant: the college's students are deleted with it.
delete_college_rows_cascade(college) ==
    [colleges |-> colleges \ {college},
     students |-> {s \in students : s.college_id # college.id}]

\* db.delete(college) and the flush: College.students has no delete cascade,
\* so the unit of work sets the foreign key of the college's students to NULL
\* and deletes the college row.
delete_college_rows(college) ==
    [colleges |-> colleges \ {college},
     students |-> {IF s.college_id = college.id
                   THEN [s EXCEPT !.college_id = None] ELSE s : s \in students}]

Outcome(cs, ss, cseq, sseq, res, db) ==
    [colleges |-> cs, students |-> ss, collegeSeq |-> cseq, studentSeq |-> sseq,
     result |-> res, session |-> db]

Unchanged(res, db) == Outcome(colleges, students, collegeSeq, studentSeq, res, db)

----
\* api/schema.py: Query

api_colleges ==
    LET db == get_db
        rows == query_all(colleges)
    IN Unchanged(
        List([i \in 1..Len(rows) |->
            CollegeType([id |-> rows[i].id, name |-> rows[i].name,
                         location |-> rows[i].location]).view]), db)

api_students ==
    LET db == get_db
        rows == query_all(students)
    IN Unchanged(
        List([i \in 1..Len(rows) |->
            StudentType([id |-> rows[i].id, name |-> rows[i].name,
                         age |-> rows[i].age,
                         college_id |-> rows[i].college_id]).view]), db)

----
\* api/schema.py: Mutation

\* Mutant: the row is built with name and location exchanged.
api_create_college_swapped(name, location) ==
    LET db == get_db
        college == [id |-> assign_id(collegeSeq), name |-> location, location |-> name]
    IN Outcome(colleges \cup {college}, students, collegeSeq + 1, studentSeq,
               CollegeType([id |-> college.id, name |-> college.name,
                            location |-> college.location]), db)

api_create_college(name, location) ==
    LET db == get_db
        college == [id |-> assign_id(collegeSeq), name |-> name, location |-> location]
    IN Outcome(colleges \cup {college}, students, collegeSeq + 1, studentSeq,
               CollegeType([id |-> college.id, name |-> college.name,
                            location |-> college.location]), db)

\* Mutant: location is not assigned to the row.
api_update_college_name_only(id, name, location) ==
    LET db == get_db
        found == query_first(colleges, id)
    IN IF found = {} THEN Unchanged(Raise("ValueError", "College not found"), db)
       ELSE LET old == CHOOSE c \in found : TRUE
                college == [old EXCEPT !.name = name]
            IN Outcome((colleges \ {old}) \cup {college}, students, collegeSeq, studentSeq,
                       CollegeType([id |-> college.id, name |-> name,
                                    location |-> location]), db)

api_update_college(id, name, location) ==
    LET db == get_db
        found == query_first(colleges, id)
    IN IF found = {} THEN Unchanged(Raise("ValueError", "College not found"), db)
       ELSE LET old == CHOOSE c \in found : TRUE
                college == [old EXCEPT !.name = name, !.location = location]
            IN Outcome((colleges \ {old}) \cup {college}, students, collegeSeq, studentSeq,
                       CollegeType([id |-> college.id, name |-> college.name,
                                    location |-> college.location]), db)

api_delete_college(id) ==
    LET db == get_db
        found == query_first(colleges, id)
    IN IF found # {}
       THEN LET college == CHOOSE c \in found : TRUE
                after == delete_college_rows(college)
            IN Outcome(after.colleges, after.students, collegeSeq, studentSeq,
                       Bool(TRUE), db)
       ELSE Unchanged(Bool(FALSE), db)

\* Mutant: the college is not looked up.
api_create_student_unchecked(name, age, college_id) ==
    LET db == get_db
        student == [id |-> assign_id(studentSeq), name |-> name, age |-> age,
                    college_id |-> college_id]
    IN Outcome(colleges, students \cup {student}, collegeSeq, studentSeq + 1,
               StudentType([id |-> student.id, name |-> student.name,
                            age |-> student.age,
                            college_id |-> student.college_id]), db)

api_create_student(name, age, college_id) ==
    LET db == get_db
        found == query_first(colleges, college_id)
    IN IF found = {} THEN Unchanged(Raise("ValueError", "College not found"), db)
       ELSE LET student == [id |-> assign_id(studentSeq), name |-> name, age |-> age,
                            college_id |-> college_id]
            IN Outcome(colleges, students \cup {student}, collegeSeq, studentSeq + 1,
                       StudentType([id |-> student.id, name |-> student.name,
                                    age |-> student.age,
                                    college_id |-> student.college_id]), db)

\* Mutant: name is not assigned to the row.
api_update_student_age_only(id, name, age) ==
    LET db == get_db
        found == query_first(students, id)
    IN IF found = {} THEN Unchanged(Raise("ValueError", "Student not found"), db)
       ELSE LET old == CHOOSE s \in found : TRUE
                student == [old EXCEPT !.age = age]
            IN Outcome(colleges, (students \ {old}) \cup {student}, collegeSeq, studentSeq,
                       StudentType([id |-> student.id, name |-> student.name,
                                    age |-> student.age,
                                    college_id |-> student.college_id]), db)

api_update_student(id, name, age) ==
    LET db == get_db
        found == query_first(students, id)
    IN IF found = {} THEN Unchanged(Raise("ValueError", "Student not found"), db)
       ELSE LET old == CHOOSE s \in found : TRUE
                student == [old EXCEPT !.name = name, !.age = age]
            IN Outcome(colleges, (students \ {old}) \cup {student}, collegeSeq, studentSeq,
                       StudentType([id |-> student.id, name |-> student.name,
                                    age |-> student.age,
                                    college_id |-> student.college_id]), db)

\* Mutant: an absent id raises, as the update resolvers do.
api_delete_student_raises(id) ==
    LET db == get_db
        found == query_first(students, id)
    IN IF found # {}
       THEN LET student == CHOOSE s \in found : TRUE
            IN Outcome(colleges, students \ {student}, collegeSeq, studentSeq,
                       Bool(TRUE), db)
       ELSE Unchanged(Raise("ValueError", "Student not found"), db)

api_delete_student(id) ==
    LET db == get_db
        found == query_first(students, id)
    IN IF found # {}
       THEN LET student == CHOOSE s \in found : TRUE
            IN Outcome(colleges, students \ {student}, collegeSeq, studentSeq,
                       Bool(TRUE), db)
       ELSE Unchanged(Bool(FALSE), db)

----
\* The state machine: one resolver call per step.

NoLocals == [op |-> "none"]

\* Freshly created, empty tables; nothing called yet.
InitStore ==
    /\ colleges = {}
    /\ students = {}
    /\ collegeSeq = 1
    /\ studentSeq = 1
    /\ everCollegeIds = {}
    /\ called = "none"
    /\ result = NoResult
    /\ session = [state |-> "none"]
    /\ pc = [p \in Procs |-> "idle"]
    /\ local = [p \in Procs |-> NoLocals]

\* One call at a time never inserts a Student under a missing College, so
\* whether the store checks the foreign key makes no difference to it.
Init == InitStore /\ fkEnforced = FALSE

\* With calls in flight together it does: the store may or may not check.
InitConcurrent == InitStore /\ fkEnforced \in BOOLEAN

Apply(o) ==
    /\ result' = o.result
    /\ session' = o.session
    /\ colleges' = o.colleges
    /\ students' = o.students
    /\ collegeSeq' = o.collegeSeq
    /\ studentSeq' = o.studentSeq
    /\ everCollegeIds' = everCollegeIds \cup {c.id : c \in o.colleges}

Call(name, o) == called' = name /\ Apply(o) /\ UNCHANGED <<inflight, fkEnforced>>

RowsLeft == (collegeSeq - 1) + (studentSeq - 1) < MaxRows

Colleges == Call("colleges", api_colleges)

Students == Call("students", api_students)

CreateCollege(name, location) == RowsLeft /\ Call("create_college", api_create_college(name, location))

UpdateCollege(id, name, location) == Call("update_college", api_update_college(id, name, location))

DeleteCollege(id) == Call("delete_college", api_delete_college(id))

CreateStudent(name, age, college_id) ==
    /\ RowsLeft \/ query_first(colleges, college_id) = {}
    /\ Call("create_student", api_create_student(name, age, college_id))

UpdateStudent(id, name, age) == Call("update_student", api_update_student(id, name, age))

DeleteStudent(id) == Call("delete_student", api_delete_student(id))

Next ==
    \/ Colleges
    \/ Students
    \/ \E name \in CollegeNames, location \in Locations : CreateCollege(name, location)
    \/ \E id \in IdInputs, name \in CollegeNames, location \in Locations :
          UpdateCollege(id, name, location)
    \/ \E id \in IdInputs : DeleteCollege(id)
    \/ \E name \in StudentNames, age \in Ages, college_id \in IdInputs :
          CreateStudent(name, age, college_id)
    \/ \E id \in IdInputs, name \in StudentNames, age \in Ages : UpdateStudent(id, name, age)
    \/ \E id \in IdInputs : DeleteStudent(id)

Spec == Init /\ [][Next]_vars

----
\* schema.py: the older copy of the resolvers.

root_colleges ==
    LET db == get_db
        rows == query_all(colleges)
    IN Unchanged(
        List([i \in 1..Len(rows) |->
            CollegeType([id |-> rows[i].id, name |-> rows[i].name,
                         location |-> rows[i].location]).view]), db)

root_students ==
    LET db == get_db
        rows == query_all(students)
    IN Unchanged(
        List([i \in 1..Len(rows) |->
            StudentType([id |-> rows[i].id, name |-> rows[i].name,
                         age |-> rows[i].age,
                         college_id |-> rows[i].college_id]).view]), db)

\* Returns the ORM class College, not CollegeType.
root_create_college(name, location) ==
    LET db == get_db
        college == [id |-> assign_id(collegeSeq), name |-> name, location |-> location]
    IN Outcome(colleges \cup {college}, students, collegeSeq + 1, studentSeq,
               College([id |-> college.id, name |-> college.name,
                        location |-> college.location]), db)

\* Builds StudentType without age, after the commit.
root_create_student(name, age, college_id) ==
    LET db == get_db
        found == query_first(colleges, college_id)
    IN IF found = {} THEN Unchanged(Raise("ValueError", "college not found"), db)
       ELSE LET student == [id |-> assign_id(studentSeq), name |-> name, age |-> age,
                            college_id |-> college_id]
            IN Outcome(colleges, students \cup {student}, collegeSeq, studentSeq + 1,
                       StudentType([id |-> student.id, name |-> student.name,
                                    college_id |-> student.college_id]), db)

----
\* Resolver calls in flight together.  A resolver touches the store twice, in
\* its query and in its commit; calls interleave between the two.

Pending == Cardinality({p \in Procs : pc[p] = "create_student_commit"})

\* create_student up to the lookup of the college.
CreateStudentQuery(p, name, age, college_id) ==
    /\ pc[p] = "idle"
    /\ LET db == get_db
           found == query_first(colleges, college_id)
       IN IF found = {}
          THEN /\ called' = "create_student"
               /\ result' = Raise("ValueError", "College not found")
               /\ session' = db
               /\ UNCHANGED inflight
          ELSE /\ (collegeSeq - 1) + (studentSeq - 1) + Pending < MaxRows
               /\ pc' = [pc EXCEPT ![p] = "create_student_commit"]
               /\ local' = [local EXCEPT ![p] =
                      [op |-> "create_student", db |-> db, name |-> name, age |-> age,
                       college_id |-> college_id]]
               /\ UNCHANGED <<called, result, session>>
    /\ UNCHANGED <<colleges, students, collegeSeq, studentSeq, everCollegeIds, fkEnforced>>

\* create_student from db.add(student) on.
CreateStudentCommit(p) ==
    /\ pc[p] = "create_student_commit"
    /\ LET l == local[p]
           student == [id |-> assign_id(studentSeq), name |-> l.name, age |-> l.age,
                       college_id |-> l.college_id]
       IN IF fkEnforced /\ query_first(colleges, l.college_id) = {}
          THEN /\ result' = Raise("IntegrityError", "FOREIGN KEY constraint failed")
               /\ UNCHANGED <<students, studentSeq>>
          ELSE /\ students' = students \cup {student}
               /\ studentSeq' = studentSeq + 1
               /\ result' = StudentType([id |-> student.id, name |-> student.name,
                                         age |-> student.age,
                                         college_id |-> student.college_id])
    /\ called' = "create_student"
    /\ session' = local[p].db
    /\ pc' = [pc EXCEPT ![p] = "idle"]
    /\ local' = [local EXCEPT ![p] = NoLocals]
    /\ UNCHANGED <<colleges, collegeSeq, everCollegeIds, fkEnforced>>

\* delete_college up to the lookup of the college.
DeleteCollegeQuery(p, id) ==
    /\ pc[p] = "idle"
    /\ LET db == get_db
           found == query_first(colleges, id)
       IN IF found # {}
          THEN /\ pc' = [pc EXCEPT ![p] = "delete_college_commit"]
               /\ local' = [local EXCEPT ![p] =
                      [op |-> "delete_college", db |-> db,
                       college |-> CHOOSE c \in found : TRUE]]
               /\ UNCHANGED <<called, result, session>>
          ELSE /\ called' = "delete_college"
               /\ result' = Bool(FALSE)
               /\ session' = db
               /\ UNCHANGED inflight
    /\ UNCHANGED <<colleges, students, collegeSeq, studentSeq, everCollegeIds, fkEnforced>>

\* delete_college from db.delete(college) on.
DeleteCollegeCommit(p) ==
    /\ pc[p] = "delete_college_commit"
    /\ LET after == delete_college_rows(local[p].college)
       IN /\ colleges' = after.colleges
          /\ students' = after.students
    /\ called' = "delete_college"
    /\ result' = Bool(TRUE)
    /\ session' = local[p].db
    /\ pc' = [pc EXCEPT ![p] = "idle"]
    /\ local' = [local EXCEPT ![p] = NoLocals]
    /\ UNCHANGED <<collegeSeq, studentSeq, everCollegeIds, fkEnforced>>

NextConcurrent ==
    \/ \E name \in CollegeNames, location \in Locations : CreateCollege(name, location)
    \/ \E p \in Procs, name \in StudentNames, age \in Ages, college_id \in IdInputs :
          CreateStudentQuery(p, name, age, college_id)
    \/ \E p \in Procs : CreateStudentCommit(p)
    \/ \E p \in Procs, id \in IdInputs : DeleteCollegeQuery(p, id)
    \/ \E p \in Procs : DeleteCollegeCommit(p)

SpecConcurrent == InitConcurrent /\ [][NextConcurrent]_vars

----
\* Properties of the resolvers.  A property of one resolver is a property of
\* its steps: those that end with that resolver as the one called.

CollegeRow(id) == CHOOSE c \in colleges : c.id = id

StudentRow(id) == CHOOSE s \in students : s.id = id

HasCollege(id) == \E c \in colleges : c.id = id

HasStudent(id) == \E s \in students : s.id = id

IsNotFound(r) == r.kind = "error" /\ r.error = "ValueError"

CollegeView(c) == [type |-> "CollegeType", id |-> c.id, name |-> c.name,
                   location |-> c.location]

StudentView(s) == [type |-> "StudentType", id |-> s.id, name |-> s.name, age |-> s.age,
                   college_id |-> s.college_id]

InList(r, v) == r.kind = "list" /\ \E i \in DOMAIN r.items : r.items[i] = v

C2_CreateStudentNoCollege ==
    [][called' = "create_student" => \A name \in StudentNames, age \in Ages, college_id \in IdInputs :
        (CreateStudent(name, age, college_id) /\ ~HasCollege(college_id)) =>
            /\ IsNotFound(result')
            /\ result'.message = "College not found"
            /\ students' = students
            /\ colleges' = colleges]_vars

\* create_student was refused while colleges and students exist.
C2_Witness ==
    /\ called = "create_student"
    /\ IsNotFound(result)
    /\ colleges # {}
    /\ students # {}

\* C3: update_college on an id that no College row has raises "College not
\* found" and leaves every row as it was; on an existing id it replaces that
\* row's name and location, keeps its id and every other row, and returns the
\* CollegeType of the new values.
C3_UpdateCollege ==
    [][called' = "update_college" => \A id \in IdInputs, name \in CollegeNames, location \in Locations :
        UpdateCollege(id, name, location) =>
            IF HasCollege(id)
            THEN LET new == [id |-> id, name |-> name, location |-> location]
                 IN /\ colleges' = (colleges \ {CollegeRow(id)}) \cup {new}
                    /\ Cardinality(colleges') = Cardinality(colleges)
                    /\ students' = students
                    /\ result'.kind = "view"
                    /\ result'.view = CollegeView(new)
            ELSE /\ IsNotFound(result')
                 /\ colleges' = colleges
                 /\ students' = students]_vars

\* update_college changed both fields of one of two colleges.
C3_Witness ==
    /\ called = "update_college"
    /\ result.kind = "view"
    /\ Cardinality(colleges) = 2
    /\ \E c \in colleges : c.id = result.view.id /\ c.id < collegeSeq - 1
    /\ \E c, d \in colleges : c.name # d.name /\ c.location # d.location

\* C4: delete_college and delete_student never raise.  On an id with no row
\* they return False and change nothing; on an existing id they return True
\* and the table loses that row and no other; the same call again returns
\* False.
C4_Delete ==
    [][called' \in {"delete_college", "delete_student"} => \A id \in IdInputs :
        /\ DeleteCollege(id) =>
              /\ result'.kind = "bool"
              /\ IF HasCollege(id)
                 THEN /\ result'.flag = TRUE
                      /\ colleges' = colleges \ {CollegeRow(id)}
                      /\ {s.id : s \in students'} = {s.id : s \in students}
                      /\ Cardinality(students') = Cardinality(students)
                      /\ (api_delete_college(id).result = Bool(FALSE))'
                 ELSE /\ result'.flag = FALSE
                      /\ colleges' = colleges
                      /\ students' = students
        /\ DeleteStudent(id) =>
              /\ result'.kind = "bool"
              /\ IF HasStudent(id)
                 THEN /\ result'.flag = TRUE
                      /\ students' = students \ {StudentRow(id)}
                      /\ colleges' = colleges
                      /\ (api_delete_student(id).result = Bool(FALSE))'
                 ELSE /\ result'.flag = FALSE
                      /\ colleges' = colleges
                      /\ students' = students]_vars

\* delete_student removed one of two students.
C4_Witness ==
    /\ called = "delete_student"
    /\ result = Bool(TRUE)
    /\ Cardinality(students) = 1
    /\ studentSeq = 3

\* C5: in every state colleges() and students() are reads that raise nothing:
\* one CollegeType per College row, one StudentType per Student row, each
\* StudentType with an integer college_id that is not null, and no views for
\* empty tables.
C5_QueriesTotal ==
    LET cq == api_colleges
        sq == api_students
    IN /\ cq.colleges = colleges /\ cq.students = students
       /\ sq.colleges = colleges /\ sq.students = students
       /\ cq.result.kind = "list"
       /\ Len(cq.result.items) = Cardinality(colleges)
       /\ \A c \in colleges :
             Cardinality({i \in DOMAIN cq.result.items :
                             cq.result.items[i] = CollegeView(c)}) = 1
       /\ sq.result.kind = "list"
       /\ Len(sq.result.items) = Cardinality(students)
       /\ \A s \in students :
             Cardinality({i \in DOMAIN sq.result.items :
                             sq.result.items[i] = StudentView(s)}) = 1
       /\ \A i \in DOMAIN sq.result.items :
             /\ sq.result.items[i].college_id \in Int
             /\ sq.result.items[i].college_id # None

\* C6: when a resolver has returned or raised, the session it acquired is
\* closed.
C6_SessionClosed == called # "none" => session.state = "closed"

\* What a caller can tell two results apart by: the value, or the class of
\* the exception.
Observed(r) == IF r.kind = "error" THEN [kind |-> "error", error |-> r.error] ELSE r

Same(a, b) ==
    /\ a.colleges = b.colleges
    /\ a.students = b.students
    /\ Observed(a.result) = Observed(b.result)

\* C7: colleges, students, create_college and create_student of schema.py
\* and of api/schema.py give the same result and the same store effect in
\* every state and for every input.
C7_TreesAgree ==
    /\ Same(root_colleges, api_colleges)
    /\ Same(root_students, api_students)
    /\ \A name \in CollegeNames, location \in Locations :
          Same(root_create_college(name, location), api_create_college(name, location))
    /\ \A name \in StudentNames, age \in Ages, college_id \in IdInputs :
          Same(root_create_student(name, age, college_id),
               api_create_student(name, age, college_id))

\* C8: update_student on an existing Student replaces that row's name and
\* age, keeps its id and college_id, every other Student row and every
\* College row, and returns the StudentType of the new name and age and the
\* old college_id; on an absent id it raises "Student not found" and changes
\* nothing.
C8_UpdateStudentFrame ==
    [][called' = "update_student" => \A id \in IdInputs, name \in StudentNames, age \in Ages :
        UpdateStudent(id, name, age) =>
            IF HasStudent(id)
            THEN LET new == [id |-> id, name |-> name, age |-> age,
                             college_id |-> StudentRow(id).college_id]
                 IN /\ students' = (students \ {StudentRow(id)}) \cup {new}
                    /\ Cardinality(students') = Cardinality(students)
                    /\ colleges' = colleges
                    /\ result'.kind = "view"
                    /\ result'.view = StudentView(new)
            ELSE /\ IsNotFound(result')
                 /\ result'.message = "Student not found"
                 /\ students' = students
                 /\ colleges' = colleges]_vars

\* update_student changed name and age of one of two students.
C8_Witness ==
    /\ called = "update_student"
    /\ result.kind = "view"
    /\ Cardinality(students) = 2
    /\ \E s, t \in students :
          /\ s.id = result.view.id
          /\ s.id < t.id
          /\ s.name # t.name
          /\ s.age # t.age

C10_StudentCommittedUnderCollege ==
    [][\A p \in Procs :
        CreateStudentCommit(p) =>
            /\ result'.kind = "view" =>
                  \E c \in colleges' : c.id = result'.view.college_id
            /\ result'.kind = "error" => IsNotFound(result')]_vars

====
